---------------------------- MODULE Spec2Model ----------------------------
(***************************************************************************)
(* The per-tick decision loop of the bot in src/src/lib.rs: game_loop runs *)
(* run_creep for every creep of game::creeps() against the CREEP_TARGETS   *)
(* map, then the spawn decision for every spawn of game::spawns().         *)
(*                                                                         *)
(* The host (the game engine) is the environment.  What the code reads     *)
(* from it during a step (resolve, is_near_to, the status codes, the       *)
(* results of room.find) is an input of the step, drawn from small sets;   *)
(* what persists between ticks on the host side (which creeps exist, their *)
(* spawning flag and cargo) is state, changed by Tick.                     *)
(***************************************************************************)
EXTENDS Integers, Sequences, FiniteSets, TLC

VARIABLES
    creep_targets,  \* CREEP_TARGETS: creep name -> CreepTarget
    creeps,         \* the host's creeps, by object id (index); dead ones stay as tombstones
    iter,           \* the creep the first for loop of game_loop runs next
    last,           \* what the most recent run_creep call read and did
    spawnLoop       \* what the second for loop of game_loop has done in this tick

vars == <<creep_targets, creeps, iter, last, spawnLoop>>

----------------------------------------------------------------------------
(* Bounds of the model and constants of the program *)

MaxSpawns == 2          \* spawns game::spawns() returns in one tick
MaxStructures == 2      \* structures room.find(STRUCTURES) returns
CreepCap == 8           \* game::creeps().keys().count() >= 8

\* Creeps that leave the spawning state within the horizon of the model; all
\* other creeps exist (and count) but are still spawning.
Tracked == {1, 2}

\* Used and free energy capacities a store reports (0 and "some").
Amounts == {0, 1}

SpawnIds == {"S1", "S2"}
ControllerIds == {"C1"}
SourceIds == {"R1", "R2"}

\* ReturnCode: Ok, NotInRange, and one representative of the other codes.
ReturnCodes == {"Ok", "NotInRange", "Busy"}
\* Results of move_to (discarded by the code).
MoveCodes == {"Ok", "Tired"}
\* Results of spawn_creep.
SpawnCodes == {"Ok", "NameExists"}

----------------------------------------------------------------------------
(* enum CreepTarget *)

Charge(id) == [kind |-> "Charge", id |-> id]
Upgrade(id) == [kind |-> "Upgrade", id |-> id]
Harvest(id) == [kind |-> "Harvest", id |-> id]

CreepTarget ==
    {Charge(s) : s \in SpawnIds} \cup {Upgrade(c) : c \in ControllerIds}
        \cup {Harvest(r) : r \in SourceIds}

\* Option::None where the model records "no target".
NoTarget == [kind |-> "None", id |-> "none"]

\* creep.try_id().expect(..).to_string(): the map key of creep c.
Name(c) == ToString(c)

(* HashMap operations on creep_targets *)
Occupied(map, key) == key \in DOMAIN map
Insert(map, key, value) == [k \in DOMAIN map \cup {key} |-> IF k = key THEN value ELSE map[k]]
\* Remove as a clear() of the whole map.
RemoveClearsAll(map, key) == [k \in {} |-> NoTarget]
Remove(map, key) == [k \in DOMAIN map \ {key} |-> map[k]]
Get(map, key) == IF Occupied(map, key) THEN map[key] ELSE NoTarget

----------------------------------------------------------------------------
(* One action primitive invoked on a creep, with the status it returned *)
Act(name, target, status) == [act |-> name, target |-> target, status |-> status]

(* The input of a step with an occupied entry *)
StepInputs ==
    [resolves : BOOLEAN, near : BOOLEAN, r : ReturnCodes, mv : MoveCodes]

\* What an arm of the match did: whether it called entry.remove(), the
\* actions it invoked in order, and which host queries it made.
Outcome(remove, acts, resolve, near) ==
    [remove |-> remove, acts |-> acts, resolve |-> resolve, near |-> near]

\* Guard with the cargo tests dropped (every arm always taken).
GuardIgnoresCargo(target, creep) ==
    target.kind \in {"Upgrade", "Harvest", "Charge"}

\* The guards of the three match arms (lib.rs:114, 130, 148).
Guard(target, creep) ==
    CASE target.kind = "Upgrade" -> creep.used > 0
      [] target.kind = "Harvest" -> creep.free > 0
      [] target.kind = "Charge" -> creep.used > 0
      [] OTHER -> FALSE

\* UpgradeArm with the move issued after every failed upgrade.
UpgradeArmMovesOnAnyFailure(id, in) ==
    IF in.resolves
    THEN IF in.r # "Ok"
         THEN Outcome(in.r # "NotInRange",
                      <<Act("upgrade", id, in.r), Act("move", id, in.mv)>>, "ok", "none")
         ELSE Outcome(FALSE, <<Act("upgrade", id, in.r)>>, "ok", "none")
    ELSE Outcome(TRUE, <<>>, "fail", "none")

\* UpgradeArm with the else-if of lib.rs:120 dropped: a failed upgrade keeps the entry.
UpgradeArmIgnoresFailure(id, in) ==
    IF in.resolves
    THEN IF in.r = "NotInRange"
         THEN Outcome(FALSE, <<Act("upgrade", id, in.r), Act("move", id, in.mv)>>, "ok", "none")
         ELSE Outcome(FALSE, <<Act("upgrade", id, in.r)>>, "ok", "none")
    ELSE Outcome(TRUE, <<>>, "fail", "none")

\* lib.rs:116-126
UpgradeArm(id, in) ==
    IF in.resolves
    THEN IF in.r = "NotInRange"
         THEN Outcome(FALSE, <<Act("upgrade", id, in.r), Act("move", id, in.mv)>>, "ok", "none")
         ELSE IF in.r # "Ok"
              THEN Outcome(TRUE, <<Act("upgrade", id, in.r)>>, "ok", "none")
              ELSE Outcome(FALSE, <<Act("upgrade", id, in.r)>>, "ok", "none")
    ELSE Outcome(TRUE, <<>>, "fail", "none")

\* HarvestArm with the else of lib.rs:142 dropped: an unresolved source keeps the entry.
HarvestArmKeepsUnresolved(id, in) ==
    IF in.resolves
    THEN IF in.near
         THEN IF in.r # "Ok"
              THEN Outcome(TRUE, <<Act("harvest", id, in.r)>>, "ok", "yes")
              ELSE Outcome(FALSE, <<Act("harvest", id, in.r)>>, "ok", "yes")
         ELSE Outcome(FALSE, <<Act("move", id, in.mv)>>, "ok", "no")
    ELSE Outcome(FALSE, <<>>, "fail", "none")

\* HarvestArm that keeps moving toward the source when its id no longer resolves.
HarvestArmMovesUnresolved(id, in) ==
    IF in.resolves
    THEN IF in.near
         THEN IF in.r # "Ok"
              THEN Outcome(TRUE, <<Act("harvest", id, in.r)>>, "ok", "yes")
              ELSE Outcome(FALSE, <<Act("harvest", id, in.r)>>, "ok", "yes")
         ELSE Outcome(FALSE, <<Act("move", id, in.mv)>>, "ok", "no")
    ELSE Outcome(TRUE, <<Act("move", id, in.mv)>>, "fail", "none")

\* lib.rs:132-144
HarvestArm(id, in) ==
    IF in.resolves
    THEN IF in.near
         THEN IF in.r # "Ok"
              THEN Outcome(TRUE, <<Act("harvest", id, in.r)>>, "ok", "yes")
              ELSE Outcome(FALSE, <<Act("harvest", id, in.r)>>, "ok", "yes")
         ELSE Outcome(FALSE, <<Act("move", id, in.mv)>>, "ok", "no")
    ELSE Outcome(TRUE, <<>>, "fail", "none")

\* ChargeArm with NotInRange treated as any other failure after the move.
ChargeArmClearsOutOfRange(id, in) ==
    IF in.resolves
    THEN IF in.r = "NotInRange"
         THEN Outcome(TRUE, <<Act("transfer", id, in.r), Act("move", id, in.mv)>>, "ok", "none")
         ELSE IF in.r # "Ok"
              THEN Outcome(TRUE, <<Act("transfer", id, in.r)>>, "ok", "none")
              ELSE Outcome(FALSE, <<Act("transfer", id, in.r)>>, "ok", "none")
    ELSE Outcome(TRUE, <<>>, "fail", "none")

\* ChargeArm with the else of lib.rs:158 dropped: an unresolved spawn keeps the entry.
ChargeArmKeepsUnresolved(id, in) ==
    IF in.resolves
    THEN IF in.r = "NotInRange"
         THEN Outcome(FALSE, <<Act("transfer", id, in.r), Act("move", id, in.mv)>>, "ok", "none")
         ELSE IF in.r # "Ok"
              THEN Outcome(TRUE, <<Act("transfer", id, in.r)>>, "ok", "none")
              ELSE Outcome(FALSE, <<Act("transfer", id, in.r)>>, "ok", "none")
    ELSE Outcome(FALSE, <<>>, "fail", "none")

\* ChargeArm that removes the entry when the move_to after NotInRange fails.
ChargeArmClearsOnFailedMove(id, in) ==
    IF in.resolves
    THEN IF in.r = "NotInRange"
         THEN Outcome(in.mv # "Ok", <<Act("transfer", id, in.r), Act("move", id, in.mv)>>,
                      "ok", "none")
         ELSE IF in.r # "Ok"
              THEN Outcome(TRUE, <<Act("transfer", id, in.r)>>, "ok", "none")
              ELSE Outcome(FALSE, <<Act("transfer", id, in.r)>>, "ok", "none")
    ELSE Outcome(TRUE, <<>>, "fail", "none")

\* lib.rs:150-160
ChargeArm(id, in) ==
    IF in.resolves
    THEN IF in.r = "NotInRange"
         THEN Outcome(FALSE, <<Act("transfer", id, in.r), Act("move", id, in.mv)>>, "ok", "none")
         ELSE IF in.r # "Ok"
              THEN Outcome(TRUE, <<Act("transfer", id, in.r)>>, "ok", "none")
              ELSE Outcome(FALSE, <<Act("transfer", id, in.r)>>, "ok", "none")
    ELSE Outcome(TRUE, <<>>, "fail", "none")

\* lib.rs:163-165
DefaultArm == Outcome(TRUE, <<>>, "none", "none")

\* match creep_target { ... } (lib.rs:112-166)
MatchTarget(target, creep, in) ==
    IF Guard(target, creep)
    THEN CASE target.kind = "Upgrade" -> UpgradeArm(target.id, in)
           [] target.kind = "Harvest" -> HarvestArm(target.id, in)
           [] target.kind = "Charge" -> ChargeArm(target.id, in)
    ELSE DefaultArm

----------------------------------------------------------------------------
(* Task discovery: the Entry::Vacant arm (lib.rs:168-207) *)

\* A structure room.find(find::STRUCTURES) returns; free is the free energy
\* capacity of its store (read for spawns only).
Spawn(id, free) == [kind |-> "spawn", id |-> id, free |-> free]
Controller(id) == [kind |-> "controller", id |-> id, free |-> 0]

StructureObjects ==
    {Spawn(s, f) : s \in SpawnIds, f \in Amounts} \cup {Controller(c) : c \in ControllerIds}

\* The sequences of at most n elements of S.
RECURSIVE DistinctSeqs(_, _)
DistinctSeqs(S, n) ==
    IF n = 0 THEN {<<>>}
    ELSE LET shorter == DistinctSeqs(S, n - 1) IN
         shorter \cup
         {Append(q, x) : q \in {p \in shorter : Len(p) = n - 1},
                         x \in S}

HasDistinctIds(q) == \A i, j \in 1..Len(q) : i # j => q[i].id # q[j].id

\* The results room.find(find::STRUCTURES, None) can give, in enumeration order.
StructureLists == {q \in DistinctSeqs(StructureObjects, MaxStructures) : HasDistinctIds(q)}

\* The results room.find(find::SOURCES_ACTIVE, None) can give.
SourceLists ==
    {q \in DistinctSeqs({[id |-> r] : r \in SourceIds}, Cardinality(SourceIds)) : HasDistinctIds(q)}

\* The for loop over structures (lib.rs:177-191), from element i on: spawners
\* collects the spawns with free capacity, controller keeps the last controller.
RECURSIVE ScanStructures(_, _, _)
ScanStructures(structures, i, acc) ==
    IF i > Len(structures) THEN acc
    ELSE LET structure == structures[i] IN
         IF structure.kind = "spawn"
         THEN IF structure.free > 0
              THEN ScanStructures(structures, i + 1,
                       [acc EXCEPT !.spawners = Append(@, structure)])
              ELSE ScanStructures(structures, i + 1, acc)
         ELSE IF structure.kind = "controller"
              THEN ScanStructures(structures, i + 1,
                       [acc EXCEPT !.controller = <<structure>>])
              ELSE ScanStructures(structures, i + 1, acc)

\* DeliveryTarget with the two tests of lib.rs:193 and lib.rs:198 swapped.
DeliveryTargetControllerFirst(structures) ==
    LET found == ScanStructures(structures, 1, [spawners |-> <<>>, controller |-> <<>>]) IN
    IF found.controller # <<>>
    THEN Upgrade(found.controller[1].id)
    ELSE IF Len(found.spawners) > 0
         THEN Charge(found.spawners[1].id)
         ELSE NoTarget

\* DeliveryTarget without the free-capacity test of lib.rs:179: with no
\* controller and no spawn with free capacity, a full spawn is taken.
DeliveryTargetFallsBackToSpawn(structures) ==
    LET found == ScanStructures(structures, 1, [spawners |-> <<>>, controller |-> <<>>])
        spawns == SelectSeq(structures, LAMBDA x : x.kind = "spawn")
    IN
    IF Len(found.spawners) > 0
    THEN Charge(found.spawners[1].id)
    ELSE IF found.controller # <<>>
         THEN Upgrade(found.controller[1].id)
         ELSE IF Len(spawns) > 0 THEN Charge(spawns[1].id) ELSE NoTarget

\* lib.rs:175-203: the target chosen for a creep that holds energy, NoTarget
\* when the arm reaches error!("No Controller could be found").
DeliveryTarget(structures) ==
    LET found == ScanStructures(structures, 1, [spawners |-> <<>>, controller |-> <<>>]) IN
    IF Len(found.spawners) > 0
    THEN Charge(found.spawners[1].id)
    ELSE IF found.controller # <<>>
         THEN Upgrade(found.controller[1].id)
         ELSE NoTarget

\* HarvestTarget taking the last source found instead of the first.
HarvestTargetLast(sources) ==
    IF Len(sources) > 0 THEN Harvest(sources[Len(sources)].id) ELSE NoTarget

\* lib.rs:204-206: room.find(find::SOURCES_ACTIVE, None).get(0)
HarvestTarget(sources) ==
    IF Len(sources) > 0 THEN Harvest(sources[1].id) ELSE NoTarget

\* HoldsEnergy testing for a full store instead of a non-empty one.
HoldsEnergyWhenFull(creep) == creep.free = 0

\* The test of lib.rs:172.
HoldsEnergy(creep) == creep.used > 0

----------------------------------------------------------------------------
(* The record of one run_creep call *)

\* ran: "skip" (spawning), "occupied", "vacant"; used / free: the creep's
\* cargo; target: the entry found under the creep's name; world: whether the
\* target's id resolves and, for a source, whether the creep is next to it in
\* this tick (the host's answers, asked or not); resolve / near: the host queries the step
\* made; acts: the action primitives invoked, in order; remove: whether
\* entry.remove() was called; structures / sources: what room.find returned,
\* Unread when not called; assigned: the target the vacant arm inserted.
StepRecord(c, creep, ran, target, world, out, structures, sources, assigned) ==
    [creep |-> c, used |-> creep.used, free |-> creep.free, ran |-> ran,
     target |-> target, world |-> world,
     resolve |-> out.resolve, near |-> out.near, acts |-> out.acts, remove |-> out.remove,
     structures |-> structures, sources |-> sources, assigned |-> assigned]

Unread == <<"unread">>
NoWorld == [resolves |-> FALSE, near |-> FALSE]
World(target, in) ==
    [resolves |-> in.resolves, near |-> target.kind = "Harvest" /\ in.near]
NoOutcome == Outcome(FALSE, <<>>, "none", "none")
NoCreep == [st |-> "none", used |-> 0, free |-> 0]
NoStep == StepRecord(0, NoCreep, "none", NoTarget, NoWorld, NoOutcome, Unread, Unread, NoTarget)

(* The creeps of the host *)
SpawningCreep == [st |-> "spawning", used |-> 0, free |-> 0]
DeadCreep == [st |-> "dead", used |-> 0, free |-> 0]
AliveCreeps == [st : {"alive"}, used : Amounts, free : Amounts]

\* game::creeps(): the ids of the creeps that exist.
GameCreeps(cs) == {c \in 1..Len(cs) : cs[c].st # "dead"}
\* The first creep at or after i that game::creeps().values() yields.
RECURSIVE NextCreep(_, _)
NextCreep(cs, i) ==
    IF i > Len(cs) \/ cs[i].st # "dead" THEN i ELSE NextCreep(cs, i + 1)

----------------------------------------------------------------------------
(* run_creep (lib.rs:98-209), for the creep the first loop of game_loop yields *)

\* RunSpawning without the early return: the creep gets a target like any other.
RunSpawningAssigns(c, creep) ==
    /\ creep.st = "spawning"
    /\ last' = StepRecord(c, creep, "skip", NoTarget, NoWorld, NoOutcome, Unread, Unread, NoTarget)
    /\ creep_targets' = Insert(creep_targets, Name(c), Harvest("R1"))

\* lib.rs:99-101
RunSpawning(c, creep) ==
    /\ creep.st = "spawning"
    /\ last' = StepRecord(c, creep, "skip", NoTarget, NoWorld, NoOutcome, Unread, Unread, NoTarget)
    /\ UNCHANGED creep_targets

\* RunOccupied with entry.remove() followed at once by a fallback target: the
\* entry goes from one target to another within the step.
RunOccupiedReplaces(c, creep) ==
    /\ creep.st = "alive"
    /\ Occupied(creep_targets, Name(c))
    /\ \E in \in StepInputs :
         LET target == Get(creep_targets, Name(c))
             out == MatchTarget(target, creep, in)
             fallback == IF target = Harvest("R1") THEN Upgrade("C1") ELSE Harvest("R1")
         IN /\ creep_targets' =
                   IF out.remove THEN Insert(creep_targets, Name(c), fallback) ELSE creep_targets
            /\ last' = StepRecord(c, creep, "occupied", target, World(target, in),
                                  out, Unread, Unread, NoTarget)

\* lib.rs:108-167
RunOccupied(c, creep) ==
    /\ creep.st = "alive"
    /\ Occupied(creep_targets, Name(c))
    /\ \E in \in StepInputs :
         LET target == Get(creep_targets, Name(c))
             out == MatchTarget(target, creep, in)
         IN /\ creep_targets' =
                   IF out.remove THEN Remove(creep_targets, Name(c)) ELSE creep_targets
            /\ last' = StepRecord(c, creep, "occupied", target, World(target, in),
                                  out, Unread, Unread, NoTarget)

\* RunVacant taking any of the active sources found instead of the first.
RunVacantAnySource(c, creep) ==
    /\ creep.st = "alive"
    /\ ~Occupied(creep_targets, Name(c))
    /\ \E structures \in IF HoldsEnergy(creep) THEN StructureLists ELSE {Unread},
          sources \in IF HoldsEnergy(creep) THEN {Unread} ELSE SourceLists :
         \E assigned \in IF HoldsEnergy(creep) THEN {DeliveryTarget(structures)}
                         ELSE IF sources = <<>> THEN {NoTarget}
                         ELSE {Harvest(sources[i].id) : i \in DOMAIN sources} :
            /\ creep_targets' =
                   IF assigned # NoTarget
                   THEN Insert(creep_targets, Name(c), assigned)
                   ELSE creep_targets
            /\ last' = StepRecord(c, creep, "vacant", NoTarget, NoWorld, NoOutcome,
                                  structures, sources, assigned)

\* RunVacant with a first move toward the new target issued in the same call.
RunVacantActsAtOnce(c, creep) ==
    /\ creep.st = "alive"
    /\ ~Occupied(creep_targets, Name(c))
    /\ \E structures \in IF HoldsEnergy(creep) THEN StructureLists ELSE {Unread},
          sources \in IF HoldsEnergy(creep) THEN {Unread} ELSE SourceLists :
         LET assigned == IF HoldsEnergy(creep)
                         THEN DeliveryTarget(structures)
                         ELSE HarvestTarget(sources)
             moved == IF assigned # NoTarget
                      THEN Outcome(FALSE, <<Act("move", assigned.id, "Ok")>>, "none", "none")
                      ELSE NoOutcome
         IN /\ creep_targets' =
                   IF assigned # NoTarget
                   THEN Insert(creep_targets, Name(c), assigned)
                   ELSE creep_targets
            /\ last' = StepRecord(c, creep, "vacant", NoTarget, NoWorld, moved,
                                  structures, sources, assigned)

\* lib.rs:168-207
RunVacant(c, creep) ==
    /\ creep.st = "alive"
    /\ ~Occupied(creep_targets, Name(c))
    /\ \E structures \in IF HoldsEnergy(creep) THEN StructureLists ELSE {Unread},
          sources \in IF HoldsEnergy(creep) THEN {Unread} ELSE SourceLists :
         LET assigned == IF HoldsEnergy(creep)
                         THEN DeliveryTarget(structures)
                         ELSE HarvestTarget(sources)
         IN /\ creep_targets' =
                   IF assigned # NoTarget
                   THEN Insert(creep_targets, Name(c), assigned)
                   ELSE creep_targets
            /\ last' = StepRecord(c, creep, "vacant", NoTarget, NoWorld, NoOutcome,
                                  structures, sources, assigned)

\* One iteration of the first loop of game_loop (lib.rs:47-49).
RunCreep ==
    /\ iter <= Len(creeps)
    /\ \/ RunSpawning(iter, creeps[iter])
       \/ RunOccupied(iter, creeps[iter])
       \/ RunVacant(iter, creeps[iter])
    /\ iter' = NextCreep(creeps, iter + 1)
    /\ UNCHANGED <<creeps, spawnLoop>>

----------------------------------------------------------------------------
(* The spawn loop of game_loop (lib.rs:64-93) *)

\* Part::cost()
PartCost(part) ==
    CASE part = "Move" -> 50
      [] part = "Carry" -> 50
      [] part = "Work" -> 100

\* lib.rs:78
Body == <<"Move", "Move", "Carry", "Work">>

RECURSIVE SumCost(_, _)
SumCost(body, i) == IF i > Len(body) THEN 0 ELSE PartCost(body[i]) + SumCost(body, i + 1)

\* body.iter().map(|p| p.cost()).sum() (lib.rs:80)
BodyCost == SumCost(Body, 1)

\* room.energy_available() values the model draws.
EnergyLevels == {BodyCost - 1, BodyCost}

\* SpawnDecision with > for >= in the test of lib.rs:72.
SpawnDecisionCapOffByOne(busy, count, energy) ==
    IF busy THEN "busy"
    ELSE IF count > CreepCap THEN "capped"
    ELSE IF energy >= BodyCost THEN "spawn"
    ELSE "poor"

\* What the loop body does for one spawn: "busy" (lib.rs:66-68), "capped"
\* (lib.rs:72-74), "poor" (the test of lib.rs:80 fails) or "spawn" (lib.rs:82-91).
SpawnDecision(busy, count, energy) ==
    IF busy THEN "busy"
    ELSE IF count >= CreepCap THEN "capped"
    ELSE IF energy >= BodyCost THEN "spawn"
    ELSE "poor"

\* The tally of the spawn loop: spawns visited; of these, the ones that were
\* not spawning and whose room had the energy for the body; spawn_creep calls
\* made; calls that returned Ok.
NoSpawns == [visited |-> 0, funded |-> 0, requests |-> 0, created |-> 0]

\* One iteration of the loop, once the first loop is over; count is
\* game::creeps().keys().count() (lib.rs:72).
RunSpawn ==
    /\ iter > Len(creeps)
    /\ spawnLoop.visited < MaxSpawns
    /\ \E busy \in BOOLEAN, energy \in EnergyLevels, res \in SpawnCodes :
         LET count == Cardinality(GameCreeps(creeps))
             decision == SpawnDecision(busy, count, energy)
         IN spawnLoop' =
                [visited |-> spawnLoop.visited + 1,
                 funded |-> spawnLoop.funded +
                            (IF ~busy /\ energy >= BodyCost THEN 1 ELSE 0),
                 requests |-> spawnLoop.requests + (IF decision = "spawn" THEN 1 ELSE 0),
                 created |-> spawnLoop.created +
                             (IF decision = "spawn" /\ res = "Ok" THEN 1 ELSE 0)]
    /\ UNCHANGED <<creep_targets, creeps, iter, last>>

----------------------------------------------------------------------------
(* The host between two calls of game_loop *)

\* What a creep can be in the next tick: a spawning creep stays spawning or,
\* if tracked, appears in the world; a creep in the world changes cargo or dies.
NextStates(c, creep) ==
    CASE creep.st = "spawning" ->
             {SpawningCreep} \cup (IF c \in Tracked THEN AliveCreeps ELSE {})
      [] creep.st = "alive" -> AliveCreeps \cup {DeadCreep}
      [] OTHER -> {DeadCreep}

\* Tick with the entries of creeps that no longer exist dropped when
\* game_loop returns.
TickPrunesStale ==
    /\ iter > Len(creeps)
    /\ \E next \in [Tracked \cap (1..Len(creeps)) -> AliveCreeps \cup {SpawningCreep, DeadCreep}] :
         /\ \A c \in DOMAIN next : next[c] \in NextStates(c, creeps[c])
         /\ creeps' = [c \in 1..(Len(creeps) + spawnLoop.created) |->
                          IF c \in DOMAIN next THEN next[c]
                          ELSE IF c <= Len(creeps) THEN creeps[c]
                          ELSE SpawningCreep]
    /\ iter' = NextCreep(creeps', 1)
    /\ spawnLoop' = NoSpawns
    /\ last' = NoStep
    /\ creep_targets' =
           [k \in {Name(c) : c \in GameCreeps(creeps)} \cap DOMAIN creep_targets |->
               creep_targets[k]]

\* game_loop returns after the last spawn; the host applies the tick and calls
\* it again.  Every spawn_creep that returned Ok has added a spawning creep.
Tick ==
    /\ iter > Len(creeps)
    /\ \E next \in [Tracked \cap (1..Len(creeps)) -> AliveCreeps \cup {SpawningCreep, DeadCreep}] :
         /\ \A c \in DOMAIN next : next[c] \in NextStates(c, creeps[c])
         /\ creeps' = [c \in 1..(Len(creeps) + spawnLoop.created) |->
                          IF c \in DOMAIN next THEN next[c]
                          ELSE IF c <= Len(creeps) THEN creeps[c]
                          ELSE SpawningCreep]
    /\ iter' = NextCreep(creeps', 1)
    /\ spawnLoop' = NoSpawns
    /\ last' = NoStep
    /\ UNCHANGED <<creep_targets>>

----------------------------------------------------------------------------
\* The populations the program can start (or restart) with: CREEP_TARGETS is
\* empty after a global reset, whatever creeps exist.
\* Up to CreepCap creeps, the tracked ones spawning or in the world with any
\* cargo, the others spawning.
InitialCreeps ==
    {[c \in 1..n |-> IF c \in Tracked THEN t[c] ELSE SpawningCreep] :
        n \in 0..CreepCap, t \in [Tracked -> AliveCreeps \cup {SpawningCreep}]}

Init ==
    /\ creep_targets = <<>>
    /\ creeps \in InitialCreeps
    /\ iter = NextCreep(creeps, 1)
    /\ last = NoStep
    /\ spawnLoop = NoSpawns

Next == RunCreep \/ RunSpawn \/ Tick

Spec == Init /\ [][Next]_vars

----------------------------------------------------------------------------
(* Vocabulary of the properties *)

\* The entry under the name of the creep of the most recent step.
EntryAfter == Get(creep_targets, Name(last.creep))
Cleared == ~Occupied(creep_targets, Name(last.creep))

\* The most recent step found an entry under the creep's name.
Locked == last.ran = "occupied"

TaskActs == {"upgrade", "harvest", "transfer"}
NumActs(names) == Cardinality({i \in DOMAIN last.acts : last.acts[i].act \in names})

\* The precondition of the variant of the entry found, on the creep's cargo.
PreconditionHolds ==
    \/ last.target.kind \in {"Upgrade", "Charge"} /\ last.used > 0
    \/ last.target.kind = "Harvest" /\ last.free > 0

\* The step made no call of room.find and inserted nothing.
NoDiscovery ==
    last.structures = Unread /\ last.sources = Unread /\ last.assigned = NoTarget

\* The entry is the one found, and one move toward its target was issued.
KeptAndMoved ==
    /\ EntryAfter = last.target
    /\ last.target # NoTarget
    /\ NumActs({"move"}) = 1
    /\ \A i \in DOMAIN last.acts :
            last.acts[i].act = "move" => last.acts[i].target = last.target.id

\* game::creeps().keys().count() in this tick.
CreepCount == Cardinality(GameCreeps(creeps))

----------------------------------------------------------------------------
(* C1 *)

\* C1 as stated: whenever the task action of any variant (upgrade, harvest,
\* transfer) returns NotInRange, the entry is still present and unchanged
\* after the step and exactly one move toward the target is issued.
C1_AsStated ==
    \A i \in DOMAIN last.acts :
        (last.acts[i].act \in TaskActs /\ last.acts[i].status = "NotInRange")
            => KeptAndMoved

\* C1 amended: for Upgrade and Charge, an upgrade or transfer that returns
\* NotInRange leaves the entry present and unchanged and is followed by
\* exactly one move toward the target.  A harvest that returns NotInRange
\* removes the entry like any other status but Ok, and no move is issued.
C1_OutOfRange ==
    \A i \in DOMAIN last.acts :
        /\ (last.acts[i].act \in {"upgrade", "transfer"} /\ last.acts[i].status = "NotInRange")
              => KeptAndMoved
        /\ (last.acts[i].act = "harvest" /\ last.acts[i].status = "NotInRange")
              => Cleared /\ NumActs({"move"}) = 0

C1_Witness ==
    /\ Locked
    /\ last.target.kind = "Charge"
    /\ Len(last.acts) = 2
    /\ last.acts[1] = Act("transfer", last.target.id, "NotInRange")
    /\ last.acts[2].act = "move"

----------------------------------------------------------------------------
(* C2 *)

\* C2 as stated: a step that finds an entry whose precondition holds invokes
\* exactly one action primitive, whatever the resolution and the statuses.
C2_AsStated ==
    (Locked /\ PreconditionHolds) => Len(last.acts) = 1

\* C2 amended: such a step invokes no primitive when the target does not
\* resolve; when it resolves it invokes exactly one primitive (the task action,
\* or for Harvest away from the source the move), and exactly one move in
\* addition when the upgrade or transfer returned NotInRange: two primitives
\* in that case, never more.
C2_ActionCount ==
    (Locked /\ PreconditionHolds) =>
        /\ last.resolve \in {"ok", "fail"}
        /\ last.resolve = "fail" => last.acts = <<>>
        /\ last.resolve = "ok" =>
              /\ Len(last.acts) \in {1, 2}
              /\ NumActs(TaskActs) <= 1
              /\ NumActs({"move"}) <= 1
              /\ Len(last.acts) = 2 <=>
                    /\ last.acts[1].act \in {"upgrade", "transfer"}
                    /\ last.acts[1].status = "NotInRange"
              /\ Len(last.acts) = 2 => last.acts[2].act = "move"

C2_Witness ==
    /\ Locked
    /\ PreconditionHolds
    /\ last.target.kind = "Upgrade"
    /\ Len(last.acts) = 2

----------------------------------------------------------------------------
(* C3 *)

\* The step found a Charge entry, the creep held energy, and the spawn's id
\* did not resolve.
ChargeUnresolved ==
    Locked /\ last.target.kind = "Charge" /\ last.used > 0 /\ ~last.world.resolves

\* C3 as stated: in that step the entry is removed, no action is issued, and
\* task discovery runs for the creep (the structures of its room are read).
C3_AsStated ==
    ChargeUnresolved =>
        /\ last.remove
        /\ last.acts = <<>>
        /\ last.structures # Unread

\* The step of a creep that is in the world and has no entry is the vacant
\* arm (task discovery).
VacantStepDiscovers ==
    (/\ iter <= Len(creeps)
     /\ creeps[iter].st = "alive"
     /\ ~Occupied(creep_targets, Name(iter))
     /\ iter' # iter)
        => last'.ran = "vacant" /\ last'.creep = iter

\* C3 amended: in that step the entry is removed and no action is issued;
\* task discovery does not run in that step, so the creep has no entry after
\* it.  Discovery runs at the creep's next step, which finds no entry.
C3_ClearedNotReassigned ==
    /\ [](ChargeUnresolved => (Cleared /\ last.acts = <<>> /\ NoDiscovery))
    /\ [][VacantStepDiscovers]_vars

C3_Witness ==
    ChargeUnresolved /\ last.resolve = "fail" /\ Cleared

----------------------------------------------------------------------------
(* C4 *)

\* C4: for every variant, when the id of the entry found does not resolve in
\* this tick, the step removes the entry and invokes no action primitive.
C4_UnresolvedCleared ==
    (Locked /\ ~last.world.resolves) => (Cleared /\ last.acts = <<>>)

C4_Witness ==
    /\ Locked
    /\ last.target.kind = "Harvest"
    /\ last.free > 0
    /\ last.resolve = "fail"
    /\ Cleared

----------------------------------------------------------------------------
(* C5 *)

\* A task action was attempted and returned neither Ok nor NotInRange.
TaskFailed ==
    \E i \in DOMAIN last.acts :
        /\ last.acts[i].act \in TaskActs
        /\ last.acts[i].status \notin {"Ok", "NotInRange"}

\* C5: for every variant, after such a step the entry is removed, the failed
\* task action is the only primitive invoked, and task discovery has not run
\* for the creep in this step.
C5_FailureClears ==
    TaskFailed => (Cleared /\ Len(last.acts) = 1 /\ NoDiscovery)

C5_Witness ==
    /\ Locked
    /\ last.acts = <<Act("upgrade", last.target.id, "Busy")>>
    /\ Cleared

----------------------------------------------------------------------------
(* C6 *)

\* C6: a step that finds an entry whose precondition is false (Upgrade or
\* Charge with no energy held, Harvest with no free capacity) removes the
\* entry, does not resolve the target and invokes no primitive, whether or
\* not the target would resolve.
C6_FalsePreconditionClears ==
    (Locked /\ ~PreconditionHolds) =>
        /\ Cleared
        /\ last.resolve = "none"
        /\ last.near = "none"
        /\ last.acts = <<>>

C6_Witness ==
    /\ Locked
    /\ last.target.kind = "Upgrade"
    /\ last.used = 0
    /\ last.world.resolves
    /\ Cleared

----------------------------------------------------------------------------
(* C7 *)

\* The positions of the spawns with free capacity, and of the controllers,
\* in what room.find returned to the most recent step.
FreeSpawnsAt == {i \in DOMAIN last.structures :
                    last.structures[i].kind = "spawn" /\ last.structures[i].free > 0}
ControllersAt == {i \in DOMAIN last.structures : last.structures[i].kind = "controller"}
First(S) == CHOOSE i \in S : \A j \in S : i <= j

\* C7: a creep in the world with no entry that holds energy gets Charge on
\* the first spawn with free capacity in enumeration order whenever there is
\* one, wherever a controller stands in the enumeration; it gets Upgrade on
\* the controller only when no spawn has free capacity.
C7_ChargeBeforeUpgrade ==
    (last.ran = "vacant" /\ last.used > 0) =>
        /\ FreeSpawnsAt # {} =>
              /\ last.assigned = Charge(last.structures[First(FreeSpawnsAt)].id)
              /\ EntryAfter = last.assigned
        /\ (FreeSpawnsAt = {} /\ ControllersAt # {}) =>
              /\ last.assigned.kind = "Upgrade"
              /\ \E i \in ControllersAt : last.assigned.id = last.structures[i].id
              /\ EntryAfter = last.assigned
        /\ last.assigned.kind = "Upgrade" => FreeSpawnsAt = {}

C7_Witness ==
    /\ last.ran = "vacant"
    /\ last.used > 0
    /\ Len(last.structures) = 2
    /\ last.structures[1].kind = "controller"
    /\ EntryAfter = Charge(last.structures[2].id)

----------------------------------------------------------------------------
(* C8 *)

\* First tick of the scenario: a creep in the world with no entry and no
\* energy, in a room with an active source, has Harvest on the first active
\* source after its step.
HarvestAssigned ==
    (last.ran = "vacant" /\ last.used = 0 /\ last.sources # <<>>) =>
        EntryAfter = Harvest(last.sources[1].id)

\* A later step finds that Harvest entry; the source resolves and the creep
\* is not next to it.
HarvestFarAway ==
    Locked /\ last.target.kind = "Harvest" /\ last.world.resolves /\ ~last.world.near

\* Exactly one move toward the source, no harvest, the entry unchanged.
MovedTowardSource ==
    /\ Len(last.acts) = 1
    /\ last.acts[1].act = "move"
    /\ last.acts[1].target = last.target.id
    /\ EntryAfter = last.target

\* C8 as stated: the assignment, and in the following tick the move with
\* the entry kept whenever the source resolves and the creep is not adjacent.
C8_AsStated ==
    /\ HarvestAssigned
    /\ HarvestFarAway => MovedTowardSource

\* C8 amended: the assignment as stated; in the following tick the move is
\* issued and the entry kept if, besides, the creep has free energy capacity.
\* With no free capacity (a creep without carry capacity gets Harvest too)
\* the entry is removed and nothing is issued.
C8_HarvestScenario ==
    /\ HarvestAssigned
    /\ (HarvestFarAway /\ last.free > 0) => MovedTowardSource
    /\ (HarvestFarAway /\ last.free = 0) => (Cleared /\ last.acts = <<>>)

C8_Witness ==
    /\ HarvestFarAway
    /\ last.used = 0
    /\ last.free > 0
    /\ MovedTowardSource

----------------------------------------------------------------------------
(* C9 *)

\* C9 as stated: with 8 or more creeps no spawn issues a creation request;
\* with 7 creeps, once a spawn that is not busy and whose room has the energy
\* has been visited, exactly one creation request is issued in the tick.
C9_AsStated ==
    /\ CreepCount >= CreepCap => spawnLoop.requests = 0
    /\ (CreepCount = CreepCap - 1 /\ spawnLoop.funded >= 1) => spawnLoop.requests = 1

\* C9 amended: with 8 or more creeps no spawn issues a creation request; with
\* 7 creeps every spawn that is not busy and whose room has the energy issues
\* exactly one creation request, so the tick has as many requests as such
\* spawns (one when there is one such spawn, two when there are two).
C9_OneRequestPerSpawn ==
    /\ CreepCount >= CreepCap => spawnLoop.requests = 0
    /\ CreepCount = CreepCap - 1 => spawnLoop.requests = spawnLoop.funded

C9_Witness ==
    /\ CreepCount = CreepCap - 1
    /\ spawnLoop.visited = 2
    /\ spawnLoop.funded = 1
    /\ spawnLoop.requests = 1

----------------------------------------------------------------------------
(* C10 *)

\* C10: the step of a creep that is spawning leaves CREEP_TARGETS as it was,
\* looks up no entry and invokes no action primitive.
C10_SpawningSkipped ==
    [][(iter <= Len(creeps) /\ creeps[iter].st = "spawning" /\ iter' # iter) =>
          /\ creep_targets' = creep_targets
          /\ last'.creep = iter
          /\ last'.ran = "skip"
          /\ last'.target = NoTarget
          /\ last'.resolve = "none"
          /\ last'.acts = <<>>
          /\ NoDiscovery']_vars

C10_Witness ==
    /\ last.ran = "skip"
    /\ last.creep \in Tracked
    /\ DOMAIN creep_targets # {}

----------------------------------------------------------------------------
(* C11 *)

\* Two successive run_creep calls of one tick both took the vacant arm, for
\* creeps with the same cargo, and room.find returned the same lists to both.
SameDiscoveryInputs ==
    /\ last.ran = "vacant"
    /\ last'.ran = "vacant"
    /\ last'.used = last.used
    /\ last'.free = last.free
    /\ last'.structures = last.structures
    /\ last'.sources = last.sources

----------------------------------------------------------------------------
(* C12 *)

\* What one step does to the entry under key k: nothing; or the vacant arm
\* of the creep named k inserts the target it chose; or the occupied arm of
\* that creep removes the entry.
EntryLifecycle(k) ==
    LET before == Get(creep_targets, k)
        after == Get(creep_targets', k)
    IN \/ after = before
       \/ /\ before = NoTarget
          /\ after \in CreepTarget
          /\ last'.ran = "vacant"
          /\ Name(last'.creep) = k
          /\ after = last'.assigned
       \/ /\ before \in CreepTarget
          /\ after = NoTarget
          /\ last'.ran = "occupied"
          /\ Name(last'.creep) = k
          /\ last'.remove

\* C12: CREEP_TARGETS holds one target per key at most, and in a step the
\* entry of a key goes from absent to a target (the vacant arm), from a target
\* to absent (the occupied arm), or stays as it is; it never goes from one
\* target to a different one, and a stored target is never altered.
C12_LockLifecycle ==
    /\ [](\A k \in DOMAIN creep_targets : creep_targets[k] \in CreepTarget)
    /\ [][\A k \in DOMAIN creep_targets \cup DOMAIN creep_targets' : EntryLifecycle(k)]_vars

C12_Witness ==
    /\ Locked
    /\ last.creep = 2
    /\ last.remove
    /\ Cleared
    /\ Occupied(creep_targets, Name(1))

----------------------------------------------------------------------------
(* C13 *)

\* C13: every primitive a step invokes for a creep with an entry is invoked
\* after the entry's id was resolved in this step, the resolution having
\* succeeded in this tick, and on the object of that id.
C13_ActsOnResolvedTarget ==
    (Locked /\ last.acts # <<>>) =>
        /\ last.resolve = "ok"
        /\ last.world.resolves
        /\ \A i \in DOMAIN last.acts : last.acts[i].target = last.target.id

C13_Witness ==
    /\ Locked
    /\ last.target.kind = "Harvest"
    /\ last.resolve = "ok"
    /\ last.acts = <<Act("harvest", last.target.id, "Ok")>>

----------------------------------------------------------------------------
(* C14 *)

\* The vacant arm ran and found nothing to assign: energy held but no spawn
\* with free capacity and no controller in the structures found, or no energy
\* held and no active source found.
NothingAssignable ==
    /\ last.ran = "vacant"
    /\ \/ last.used > 0 /\ FreeSpawnsAt = {} /\ ControllersAt = {}
       \/ last.used = 0 /\ last.sources = <<>>

\* C14: such a step inserts no entry and invokes no primitive, and the loop
\* over the creeps goes on: the next creep of game::creeps() is up, and its
\* step can be taken.
C14_NoTaskIdles ==
    NothingAssignable =>
        /\ Cleared
        /\ last.assigned = NoTarget
        /\ last.acts = <<>>
        /\ last.resolve = "none"
        /\ iter = NextCreep(creeps, last.creep + 1)
        /\ iter <= Len(creeps) => ENABLED RunCreep

C14_Witness ==
    /\ NothingAssignable
    /\ last.used > 0
    /\ Len(last.structures) = 2
    /\ iter <= Len(creeps)
    /\ creeps[iter].st = "alive"

----------------------------------------------------------------------------
(* C15 *)

\* C15: in a tick with no creeps, a call of game_loop that visits no spawn
\* leaves CREEP_TARGETS as it was, stale entries included, runs no creep,
\* issues no spawn request and adds no creep; the state after it is the state
\* before it, so two such calls give what one gives.
C15_EmptyCycleIdle ==
    [][(CreepCount = 0 /\ spawnLoop.visited = 0 /\ spawnLoop'.visited = 0) =>
          /\ creep_targets' = creep_targets
          /\ creeps' = creeps
          /\ last' = NoStep
          /\ spawnLoop' = NoSpawns]_vars

C15_Witness ==
    /\ CreepCount = 0
    /\ Len(creeps) = 2
    /\ DOMAIN creep_targets = {Name(1), Name(2)}
    /\ iter > Len(creeps)
    /\ spawnLoop = NoSpawns
    /\ last = NoStep

----------------------------------------------------------------------------
(* C16 *)

\* A reason the code has to remove the entry found: the precondition of its
\* variant is false, its id does not resolve, or the task action returned a
\* status other than Ok and, for Upgrade and Charge, other than NotInRange.
RemovalJustified ==
    \/ ~PreconditionHolds
    \/ ~last.world.resolves
    \/ \E i \in DOMAIN last.acts :
          /\ last.acts[i].act \in TaskActs
          /\ last.acts[i].status # "Ok"
          /\ last.target.kind \in {"Upgrade", "Charge"} => last.acts[i].status # "NotInRange"

\* C16: a step removes the entry it found only for one of these reasons;
\* when the task action returned Ok the entry is unchanged after the step,
\* and so it is after any step that issued a move, whatever move_to returned.
C16_RemovedOnlyWhen ==
    Locked =>
        /\ Cleared => RemovalJustified
        /\ (\E i \in DOMAIN last.acts :
                last.acts[i].act \in TaskActs /\ last.acts[i].status = "Ok")
              => EntryAfter = last.target
        /\ NumActs({"move"}) > 0 => EntryAfter = last.target

C16_Witness ==
    /\ Locked
    /\ last.target.kind = "Charge"
    /\ last.acts = <<Act("transfer", last.target.id, "NotInRange"),
                     Act("move", last.target.id, "Tired")>>
    /\ EntryAfter = last.target

----------------------------------------------------------------------------
(* C17 *)

\* C17: the entry under a key changes in a step only if the step is the
\* run_creep call of the creep of that name and the creep is not spawning; a
\* step of the spawn loop and the end of the tick change no entry, and the
\* entry of a creep that no longer exists is kept as it is by every step.
C17_Frame ==
    [][/\ \A k \in DOMAIN creep_targets \cup DOMAIN creep_targets' :
             Get(creep_targets', k) # Get(creep_targets, k) =>
                 /\ iter <= Len(creeps)
                 /\ k = Name(iter)
                 /\ creeps[iter].st = "alive"
                 /\ iter' # iter
                 /\ last'.creep = iter
                 /\ spawnLoop' = spawnLoop
                 /\ creeps' = creeps
       /\ \A c \in 1..Len(creeps) :
             creeps[c].st = "dead" =>
                 Get(creep_targets', Name(c)) = Get(creep_targets, Name(c))]_vars

C17_Witness ==
    /\ Len(creeps) >= 2
    /\ creeps[1].st = "dead"
    /\ Occupied(creep_targets, Name(1))
    /\ Locked
    /\ last.creep = 2
    /\ last.remove
    /\ Cleared

----------------------------------------------------------------------------
(* C18 *)

\* C18: the step of a creep in the world that finds no entry invokes no
\* primitive, whether or not it inserts a target; primitives are invoked only
\* by steps that found an entry; an entry appears only in such a step of its
\* own creep; and a creep is stepped once per tick at most.  So after a step
\* that removed the entry in tick t, the creep's step of the next tick in
\* which it runs invokes nothing, and its first primitive comes one tick
\* later at the earliest.
C18_NoActionWithoutLock ==
    /\ [](last.acts # <<>> => Locked)
    /\ [][/\ (/\ iter <= Len(creeps)
              /\ creeps[iter].st = "alive"
              /\ ~Occupied(creep_targets, Name(iter))
              /\ iter' # iter)
                => /\ last'.creep = iter
                   /\ last'.ran = "vacant"
                   /\ last'.acts = <<>>
                   /\ last'.resolve = "none"
           /\ \A k \in DOMAIN creep_targets' \ DOMAIN creep_targets :
                 /\ Name(last'.creep) = k
                 /\ last'.ran = "vacant"
                 /\ last'.acts = <<>>
           /\ (last' # last /\ last' # NoStep) =>
                 /\ last'.creep = iter
                 /\ iter' > iter]_vars

C18_Witness ==
    /\ last.ran = "vacant"
    /\ last.used > 0
    /\ last.assigned.kind = "Upgrade"
    /\ EntryAfter = last.assigned
    /\ last.acts = <<>>

----------------------------------------------------------------------------
(* C19 *)

\* C19 as stated: starting with at most 8 creeps, the number of creeps never
\* exceeds 8, however many spawns there are.
C19_AsStated == CreepCount <= CreepCap

\* C19 amended: spawn_creep is called only while the count read is below 8,
\* and once per spawn at most in a tick, the count read not including the
\* creeps requested earlier in the tick; so with at most MaxSpawns spawns the
\* number of creeps never exceeds 7 + MaxSpawns.
C19_CapPerSpawn ==
    /\ CreepCount <= CreepCap - 1 + MaxSpawns
    /\ spawnLoop.requests > 0 => CreepCount < CreepCap
    /\ spawnLoop.created <= spawnLoop.requests
    /\ spawnLoop.requests <= spawnLoop.visited

C19_Witness ==
    /\ CreepCount = CreepCap + 1
    /\ spawnLoop = NoSpawns

----------------------------------------------------------------------------
(* C20 *)

\* The precondition of the target just assigned, on the creep's cargo.
AssignedPreconditionHolds ==
    \/ last.assigned.kind \in {"Charge", "Upgrade"} /\ last.used > 0
    \/ last.assigned.kind = "Harvest" /\ last.free > 0

\* The step found an entry and took the default arm: the entry was removed
\* for a false precondition, before any resolution.
ClearedForPrecondition ==
    Locked /\ last.resolve = "none" /\ last.acts = <<>> /\ Cleared

\* C20 as stated: every target the vacant arm inserts satisfies the
\* precondition of its variant on the creep's cargo at that moment.
C20_AsStated ==
    (last.ran = "vacant" /\ last.assigned # NoTarget) => AssignedPreconditionHolds

\* C20 amended: Charge and Upgrade are inserted only for a creep that holds
\* energy, Harvest only for a creep that holds none, whatever its free
\* capacity; and a step that finds an entry removes it for a false
\* precondition exactly when the precondition is false on the cargo of that
\* step.  So with the cargo unchanged a fresh Charge or Upgrade is not removed
\* for its precondition, and a fresh Harvest is removed for it exactly when
\* the creep has no free capacity.
C20_AssignedByHeldEnergy ==
    /\ (last.ran = "vacant" /\ last.assigned # NoTarget) =>
          /\ last.assigned.kind \in {"Charge", "Upgrade"} <=> last.used > 0
          /\ last.assigned.kind = "Harvest" <=> last.used = 0
          /\ last.used > 0 => AssignedPreconditionHolds
          /\ last.used = 0 => (AssignedPreconditionHolds <=> last.free > 0)
    /\ Locked => (ClearedForPrecondition <=> ~PreconditionHolds)

C20_Witness ==
    /\ last.ran = "vacant"
    /\ last.used = 0
    /\ last.free = 0
    /\ EntryAfter.kind = "Harvest"

=============================================================================
